---- MODULE Spec2Model ----
(***************************************************************************)
(* Model of the credential lifecycle and generation client of              *)
(* src/ai_service/app.py: TokenManager (refresh_token, get_token),         *)
(* WatsonXService.generate_text, the module-level service initialisation,  *)
(* the request handlers that use them and their parsing of the response.   *)
(*                                                                         *)
(* Time is counted in tenths of a second, so that expires_in * 0.9 seconds *)
(* is the integer 9 * expires_in.  An operation reads the clock once; the  *)
(* time it takes is part of the ticks around it.                           *)
(*                                                                         *)
(* Spec      the application as it runs: module initialisation, then the   *)
(*           handlers, each one atomic (they are coroutines that never     *)
(*           await between their first and last statement).                *)
(* SpecConc  the one shared TokenManager called from several threads, the  *)
(*           statements of get_token / refresh_token interleaved.          *)
(* SpecExtract  the parsing of one response text by each generating        *)
(*           handler: json.loads, the fenced-block search, the balanced    *)
(*           brace scan, over bounded sets of texts.                       *)
(* SpecGen   one call of generate_text over the arguments and the answers  *)
(*           it can get: the payload it builds, the text or exception it   *)
(*           ends in.                                                      *)
(* SpecServe the requests of several clients on uvicorn's one event loop,  *)
(*           each handler blocking it while it waits for an endpoint.      *)
(* SpecScan  the balanced brace scan of analyze_recording, one iteration   *)
(*           of its loop at a time.                                        *)
(* SpecLaunch  the launcher of src/start_app.py: the three children, the   *)
(*           health-check loops and the ways main gives up.                *)
(***************************************************************************)
EXTENDS Integers, FiniteSets, Sequences, TLC

VARIABLES
    api_key,          \* TRUE iff the configuration holds a non-empty API key
    space_id,         \* TRUE iff the configuration holds a non-empty space id
    phase,            \* "boot" before the module-level code ran, then "serving"
    token_manager,    \* TRUE iff the global token_manager is an object (not None)
    watson_service,   \* TRUE iff the global watson_service is an object (not None)
    token,            \* TokenManager.token
    expiry_time,      \* TokenManager.expiry_time
    tokenFrom,        \* SpecConc: serial number of the identity call whose response set token
    expiryFrom,       \* SpecConc: serial number of the identity call whose response set expiry_time
    now,              \* time.time()
    iamCalls,         \* POSTs issued to the identity endpoint so far
    genCalls,         \* POSTs issued to the generation endpoint so far
    last,             \* what the last operation of Spec did and returned
    pc,               \* SpecConc: each thread's position in get_token / refresh_token
    held,             \* SpecConc: each thread's locals (identity call serial, response)
    obs,              \* SpecConc: what the last get_token that returned saw
    text,             \* SpecExtract: the response text generate_text returned
    made,             \* SpecExtract: how that text was put together
    ext,              \* SpecExtract: what the handler's parsing of text ended in
    call,             \* SpecGen: the arguments and surroundings of a generate_text call
    reply,            \* SpecGen: what that call sent and how it ended
    req,              \* SpecServe: each request's stage in its handler and its answer
    loop,             \* SpecServe: the request whose handler holds the event loop (0: none)
    scan,             \* SpecScan: the locals of the balanced scan in analyze_recording
    at,               \* SpecLaunch: the launcher's position in main (start_app.py)
    attempt,          \* SpecLaunch: the health-check attempt of the loop the launcher is in
    proc,             \* SpecLaunch: each child process: "none", "running", "exited", "terminated"
    healthy           \* SpecLaunch: the services whose health check has returned 200

vars == <<api_key, space_id, phase, token_manager, watson_service, token, expiry_time,
          tokenFrom, expiryFrom, now, iamCalls, genCalls, last, pc, held, obs,
          text, made, ext, call, reply, req, loop, scan,
          at, attempt, proc, healthy>>

tmVars == <<token, expiry_time>>
cfgVars == <<api_key, space_id>>
concVars == <<tokenFrom, expiryFrom, pc, held, obs>>
pureVars == <<text, made, ext, call, reply>>
serveVars == <<req, loop>>
scanVars == <<scan>>
launchVars == <<at, attempt, proc, healthy>>
asideVars == <<serveVars, scanVars, launchVars>>

(***************************************************************************)
(* Bounds of the model.                                                    *)
(***************************************************************************)
MaxNow == 11
MaxIamCalls == 3
MaxGenCalls == 1
NThreads == 2
NRequests == 2
MaxLen == 3
MaxDepth == 3
MaxWidth == 2

StartTime == 1

(***************************************************************************)
(* Values.                                                                 *)
(***************************************************************************)
None == "<None>"
NotCalled == "<not called>"
Tokens == {"", "tokA"}

\* not x, for x a token value or None (Python truthiness of None and of str)
Falsy(x) == x = None \/ x = ""

\* What the identity endpoint can answer. status 0 stands for a transport error
\* (requests.post raises); body "garbage" for a body response.json() cannot turn
\* into a dict; expires_in is absent, a number of seconds, or JSON null.
IdentityFailures ==
    { [status |-> s, body |-> "garbage", access_token |-> None,
       expires_in_kind |-> "absent", expires_in |-> 0] : s \in {0, 500, 200} }

IdentityBodies ==
    { [status |-> 200, body |-> "json", access_token |-> a,
       expires_in_kind |-> k, expires_in |-> 0] :
         a \in Tokens \cup {None}, k \in {"absent", "null"} }
    \cup
    { [status |-> 200, body |-> "json", access_token |-> a,
       expires_in_kind |-> "number", expires_in |-> e] :
         a \in Tokens \cup {None}, e \in {0, 1} }

IdentityResponses == IdentityFailures \cup IdentityBodies

\* the answer of an endpoint that was not called
NoResponse == [status |-> -1, body |-> "garbage", access_token |-> None,
               expires_in_kind |-> "absent", expires_in |-> 0]

\* What the generation endpoint can answer (status 0: transport error): a body,
\* and for a 200 the shape of its JSON envelope: results is "absent" (no results
\* key), "empty" (an empty list), "no_text" (a first result without
\* generated_text) or "text" (a first result with it).
GenResponses ==
    { [status |-> 0, body |-> "", results |-> "absent"] }
    \cup { [status |-> 500, body |-> b, results |-> "absent"] : b \in {"busy", "denied"} }
    \cup { [status |-> 200, body |-> "envelope", results |-> r] :
              r \in {"absent", "empty", "no_text", "text"} }

NoGenResponse == [status |-> -1, body |-> "", results |-> "absent"]

TickDeltas == {1, 9}

(***************************************************************************)
(* TokenManager (app.py 147-189).  A manager's fields are the record       *)
(* [token, expiry_time].                                                   *)
(***************************************************************************)
\* __init__, lines 149-151: the fields before the first refresh
NewManager == [token |-> None, expiry_time |-> 0]

Manager == [token |-> token, expiry_time |-> expiry_time]

\* lines 156-172: the POST did not raise, the status is 200 and json() gave a dict
ResponseAccepted(resp) == resp.status = 200 /\ resp.body = "json"

\* line 173: token_data.get("access_token")
AccessTokenOf(resp) == resp.access_token

DefaultExpiresIn == 3600

\* line 174: token_data.get("expires_in", 3600); a JSON null is a present key
ExpiresInOf(resp) ==
    IF resp.expires_in_kind = "absent" THEN DefaultExpiresIn ELSE resp.expires_in

\* line 177: expires_in * 0.9 raises TypeError on None, caught at line 181
ExpiresInUsable(resp) == resp.expires_in_kind # "null"

\* NewExpiry without the 90% margin
NewExpiryNoMargin(t, expires_in) == t + 10 * expires_in

\* line 177: time.time() + (expires_in * 0.9), in tenths of a second
NewExpiry(t, expires_in) == t + 9 * expires_in

\* RefreshToken dropping the stored token when the response is not accepted
RefreshTokenWipesOnFailure(tm, resp, t) ==
    IF ~ResponseAccepted(resp)
    THEN [tm |-> [tm EXCEPT !.token = None], ok |-> FALSE]
    ELSE LET tm1 == [tm EXCEPT !.token = AccessTokenOf(resp)]
         IN  IF ~ExpiresInUsable(resp)
             THEN [tm |-> tm1, ok |-> FALSE]
             ELSE [tm |-> [tm1 EXCEPT !.expiry_time = NewExpiry(t, ExpiresInOf(resp))],
                   ok |-> TRUE]

\* RefreshToken putting the next attempt off after a failure
RefreshTokenBackoff(tm, resp, t) ==
    IF ~ResponseAccepted(resp)
    THEN [tm |-> [tm EXCEPT !.expiry_time = NewExpiry(t, 1)], ok |-> FALSE]
    ELSE LET tm1 == [tm EXCEPT !.token = AccessTokenOf(resp)]
         IN  IF ~ExpiresInUsable(resp)
             THEN [tm |-> tm1, ok |-> FALSE]
             ELSE [tm |-> [tm1 EXCEPT !.expiry_time = NewExpiry(t, ExpiresInOf(resp))],
                   ok |-> TRUE]

\* lines 154-183: refresh_token on manager tm at time t, the identity endpoint
\* answering resp.  ok is the value returned.
RefreshToken(tm, resp, t) ==
    IF ~ResponseAccepted(resp)
    THEN [tm |-> tm, ok |-> FALSE]
    ELSE LET tm1 == [tm EXCEPT !.token = AccessTokenOf(resp)]
         IN  IF ~ExpiresInUsable(resp)
             THEN [tm |-> tm1, ok |-> FALSE]
             ELSE [tm |-> [tm1 EXCEPT !.expiry_time = NewExpiry(t, ExpiresInOf(resp))],
                   ok |-> TRUE]

\* NeedsRefresh with >= for >
NeedsRefreshAtExpiry(t, expiry) == t >= expiry

\* line 187: time.time() > self.expiry_time
NeedsRefresh(t, expiry) == t > expiry

\* GetToken refreshing a second time when the first refresh failed
GetTokenRetrying(tm, resp, t) ==
    IF NeedsRefresh(t, tm.expiry_time)
    THEN LET r == RefreshToken(tm, resp, t)
         IN  [tm |-> r.tm, token |-> r.tm.token,
              refreshes |-> IF r.ok THEN 1 ELSE 2,
              refresh |-> IF r.ok THEN "ok" ELSE "failed"]
    ELSE [tm |-> tm, token |-> tm.token, refreshes |-> 0, refresh |-> "none"]

\* lines 185-189: get_token on manager tm at time t; resp answers the refresh, if
\* one is made.  refreshes: refresh_token executions; refresh: "none", or "ok" /
\* "failed" as refresh_token returned True / False; token: the value returned.
GetToken(tm, resp, t) ==
    IF NeedsRefresh(t, tm.expiry_time)
    THEN LET r == RefreshToken(tm, resp, t)
         IN  [tm |-> r.tm, token |-> r.tm.token, refreshes |-> 1,
              refresh |-> IF r.ok THEN "ok" ELSE "failed"]
    ELSE [tm |-> tm, token |-> tm.token, refreshes |-> 0, refresh |-> "none"]

\* the identity endpoint answers only when get_token asks it
IdentityAnswers(tm, t) ==
    IF NeedsRefresh(t, tm.expiry_time) THEN IdentityResponses ELSE {NoResponse}

(***************************************************************************)
(* WatsonXService.generate_text (app.py 54-111).                           *)
(***************************************************************************)
\* TokenRejected testing for None only
TokenRejectedIfNone(tok) == tok = None

\* line 59: if not token: raise
TokenRejected(tok) == Falsy(tok)

\* the generated text of a complete envelope
GeneratedTextValue == "generated"

\* ResponseOutcome taking every 200 for a text
ResponseOutcomeLenient(gresp) ==
    CASE gresp.status = 0 -> "transport error"
      [] gresp.status # 200 -> "text"
      [] OTHER -> "text"

\* lines 91-107: how the POST and the reading of its response end.  On a 200,
\* result.get("results", [{}])[0] raises IndexError on an empty list.
ResponseOutcome(gresp) ==
    CASE gresp.status = 0 -> "transport error"
      [] gresp.status # 200 -> "API call failed"
      [] gresp.status = 200 /\ gresp.results = "empty" -> "IndexError"
      [] OTHER -> "text"

\* lines 104-107: the text returned; .get("generated_text", "") gives "" when
\* the first result (or the default [{}]) has no generated_text
GeneratedText(gresp) ==
    IF gresp.results = "text" THEN GeneratedTextValue ELSE ""

\* lines 56-111: generate_text at time t.  outcome is "text" when a text is returned
\* and otherwise names the exception raised; posts counts the generation POSTs and
\* bearer is the token sent with it.
GenerateText(tm, resp, t, gresp) ==
    LET g == GetToken(tm, resp, t)
    IN  IF TokenRejected(g.token)
        THEN [g |-> g, outcome |-> "Failed to obtain valid token",
              posts |-> 0, bearer |-> NotCalled]
        ELSE [g |-> g, outcome |-> ResponseOutcome(gresp),
              posts |-> 1, bearer |-> g.token]

\* the generation endpoint answers only when it is sent a token
GenAnswers(tok) == IF TokenRejected(tok) THEN {NoGenResponse} ELSE GenResponses

(***************************************************************************)
(* The request generate_text builds and the exception it ends in           *)
(* (app.py 68-111).  A dict is the set of its <<key, value>> pairs, its    *)
(* values written as text; params is [given, dict], given FALSE for None.  *)
(***************************************************************************)
NoParams == [given |-> FALSE, dict |-> {}]
Dict(d) == [given |-> TRUE, dict |-> d]

\* lines 70-75
DefaultParams ==
    {<<"max_new_tokens", "4000">>, <<"temperature", "0.2">>,
     <<"top_p", "0.95">>, <<"min_new_tokens", "100">>}

\* lines 1131-1136: the params analyze_recording passes
RecordingParams ==
    {<<"max_new_tokens", "4000">>, <<"temperature", "0.3">>,
     <<"top_p", "0.95">>, <<"min_new_tokens", "100">>}

\* the params a caller can pass: None, an empty dict, dicts of its own
CallerParams ==
    {NoParams, Dict({}), Dict({<<"temperature", "0.9">>}), Dict(RecordingParams)}

\* the system prompts a caller can pass: None, an empty string, a prompt
SystemPrompts == {None, "", "You are QA-Genie"}

\* line 69: not params: None and the empty dict
ParamsFalsy(params) == ~params.given \/ params.dict = {}

\* ParametersOf putting the defaults under what the caller passed
ParametersMerged(params) ==
    params.dict \cup { d \in DefaultParams : \A p \in params.dict : p[1] # d[1] }

\* lines 69-75: the parameters the request carries
ParametersOf(params) ==
    IF ParamsFalsy(params) THEN DefaultParams ELSE params.dict

\* lines 78-87: the payload: the names of its fields, and the values of the two
\* that depend on the call (system_prompt None when the field is not there)
Payload(system_prompt, params) ==
    [fields |-> {"input", "model_id", "project_id", "parameters"}
                \cup (IF Falsy(system_prompt) THEN {} ELSE {"system_prompt"}),
     model_id |-> "ibm/granite-13b-chat-v2",
     parameters |-> ParametersOf(params),
     system_prompt |-> IF Falsy(system_prompt) THEN None ELSE system_prompt]

NoPayload == [fields |-> {}, model_id |-> "", parameters |-> {}, system_prompt |-> None]

\* What generate_text raises for an outcome: the exception's class, its message,
\* and what the message holds of the response (status -1: no status in it; the
\* body is logged at line 101, never put into the exception).
NotCarried == "<not carried>"
NoException == [class |-> "none", message |-> "", status |-> -1, body |-> NotCarried]
ExceptionOf(outcome, gresp) ==
    CASE outcome = "Failed to obtain valid token" ->
           [class |-> "Exception", message |-> "Failed to obtain valid token",
            status |-> -1, body |-> NotCarried]
      [] outcome = "API call failed" ->
           [class |-> "Exception", message |-> "API call failed with status code: ",
            status |-> gresp.status, body |-> NotCarried]
      [] outcome = "transport error" ->
           [class |-> "requests.RequestException", message |-> "",
            status |-> -1, body |-> NotCarried]
      [] outcome = "IndexError" ->
           [class |-> "IndexError", message |-> "list index out of range",
            status |-> -1, body |-> NotCarried]
      [] OTHER -> NoException

\* a call of generate_text and what it gave
NoCall == [system_prompt |-> None, params |-> NoParams, gresp |-> NoGenResponse]
NoReply == [outcome |-> "not called", raised |-> NoException, text |-> None,
            payload |-> NoPayload, bearer |-> NotCalled]

(***************************************************************************)
(* Response texts and json.loads.  A text is a sequence of symbols: each   *)
(* symbol is one lexeme of JSON, one word of prose, or one of the two      *)
(* marks of a fenced block (<fence> stands for three backquotes; the       *)
(* opening mark ends in a newline, the closing mark starts with one).  A   *)
(* string literal is one symbol, written here between single quotes;       *)
(* StrOpen and StrClose are literals whose content is a brace character,   *)
(* CutStr is the literal StrClose cut off right after its brace.           *)
(***************************************************************************)
LBrace == "{"
RBrace == "}"
LBracket == "["
RBracket == "]"
Colon == ":"
Comma == ","
Num == "1"
StrA == "'a'"
StrTC == "'test_cases'"
StrOpen == "'{'"
StrClose == "'}'"
CutStr == "'}"
Word == "word"
FenceOpen == "<fence>json"
FenceClose == "<fence>"
EndOfText == "<end>"

StringLiterals == {StrA, StrTC, StrOpen, StrClose}
Alphabet == {LBrace, RBrace, LBracket, RBracket, Colon, Comma, Num, Word,
             FenceOpen, FenceClose} \cup StringLiterals

\* a JSON value as Python holds it: int, str, list or dict (keys in insertion order)
JNum(t) == [kind |-> "number", text |-> t, keys |-> <<>>, items |-> <<>>]
JStr(t) == [kind |-> "string", text |-> t, keys |-> <<>>, items |-> <<>>]
JArr(items) == [kind |-> "array", text |-> "", keys |-> <<>>, items |-> items]
JObj(keys, items) == [kind |-> "object", text |-> "", keys |-> keys, items |-> items]
NoValue == [kind |-> "none", text |-> "", keys |-> <<>>, items |-> <<>>]

\* the symbol at position i of s
Sym(s, i) == IF i \in 1 .. Len(s) THEN s[i] ELSE EndOfText

\* s[i .. j]
Slice(s, i, j) == SubSeq(s, i, j)

\* dict[k] = v: a key already present keeps its place and takes the new value
PutMember(d, k, v) ==
    IF \E i \in 1 .. Len(d.keys) : d.keys[i] = k
    THEN LET i == CHOOSE j \in 1 .. Len(d.keys) : d.keys[j] = k
         IN  JObj(d.keys, [d.items EXCEPT ![i] = v])
    ELSE JObj(Append(d.keys, k), Append(d.items, v))

NotParsed == [ok |-> FALSE, val |-> NoValue, next |-> 0]
Parsed(v, n) == [ok |-> TRUE, val |-> v, next |-> n]

RECURSIVE ParseValue(_, _)
RECURSIVE ParseElements(_, _, _)
RECURSIVE ParseMembers(_, _, _)

\* the JSON value that starts at position i of s, and the position after it
ParseValue(s, i) ==
    CASE Sym(s, i) = Num -> Parsed(JNum(Num), i + 1)
      [] Sym(s, i) \in StringLiterals -> Parsed(JStr(Sym(s, i)), i + 1)
      [] Sym(s, i) = LBracket ->
           IF Sym(s, i + 1) = RBracket
           THEN Parsed(JArr(<<>>), i + 2)
           ELSE ParseElements(s, i + 1, <<>>)
      [] Sym(s, i) = LBrace ->
           IF Sym(s, i + 1) = RBrace
           THEN Parsed(JObj(<<>>, <<>>), i + 2)
           ELSE ParseMembers(s, i + 1, JObj(<<>>, <<>>))
      [] OTHER -> NotParsed

\* the elements of an array from position i on, acc the elements before them
ParseElements(s, i, acc) ==
    LET v == ParseValue(s, i)
    IN  CASE ~v.ok -> NotParsed
          [] v.ok /\ Sym(s, v.next) = Comma ->
               ParseElements(s, v.next + 1, Append(acc, v.val))
          [] v.ok /\ Sym(s, v.next) = RBracket ->
               Parsed(JArr(Append(acc, v.val)), v.next + 1)
          [] OTHER -> NotParsed

\* the members of an object from position i on, d the members before them
ParseMembers(s, i, d) ==
    IF Sym(s, i) \in StringLiterals /\ Sym(s, i + 1) = Colon
    THEN LET v == ParseValue(s, i + 2)
         IN  CASE ~v.ok -> NotParsed
               [] v.ok /\ Sym(s, v.next) = Comma ->
                    ParseMembers(s, v.next + 1, PutMember(d, Sym(s, i), v.val))
               [] v.ok /\ Sym(s, v.next) = RBrace ->
                    Parsed(PutMember(d, Sym(s, i), v.val), v.next + 1)
               [] OTHER -> NotParsed
    ELSE NotParsed

\* json.loads(s): the whole of s is one JSON value, or JSONDecodeError (ok FALSE)
Loads(s) ==
    LET v == ParseValue(s, 1)
    IN  IF v.ok /\ v.next = Len(s) + 1
        THEN [ok |-> TRUE, val |-> v.val]
        ELSE [ok |-> FALSE, val |-> NoValue]

RECURSIVE Serialise(_)
RECURSIVE SerialiseItems(_, _, _)

\* the items of a list or dict from the i-th on, separated by commas
SerialiseItems(v, i, n) ==
    IF i > n THEN <<>>
    ELSE (IF v.kind = "object" THEN <<v.keys[i], Colon>> ELSE <<>>)
         \o Serialise(v.items[i])
         \o (IF i < n THEN <<Comma>> ELSE <<>>)
         \o SerialiseItems(v, i + 1, n)

\* the compact JSON text of a value
Serialise(v) ==
    CASE v.kind = "array" ->
           <<LBracket>> \o SerialiseItems(v, 1, Len(v.items)) \o <<RBracket>>
      [] v.kind = "object" ->
           <<LBrace>> \o SerialiseItems(v, 1, Len(v.items)) \o <<RBrace>>
      [] OTHER -> <<v.text>>

(***************************************************************************)
(* The parsing of the response text in the generating handlers             *)
(* (app.py 348-364, 397-413, 1145-1181).                                   *)
(***************************************************************************)
\* the least member of a non-empty set of positions
Least(S) == CHOOSE i \in S : \A j \in S : i <= j

\* the closing marks after position f
ClosesAfter(s, f) == { j \in f + 1 .. Len(s) : s[j] = FenceClose }

\* FencedContent running to the end of the text
FencedContentToEnd(s, f) == Slice(s, f + 1, Len(s))

\* group(1) of the match that opens at f: ([\s\S]*?) stops at the nearest closing mark
FencedContent(s, f) == Slice(s, f + 1, Least(ClosesAfter(s, f)) - 1)

\* lines 354, 403, 1151: re.search of the fenced-block pattern in response: the
\* first opening mark that has a closing mark after it
FenceMatch(s) ==
    LET opens == { i \in 1 .. Len(s) : s[i] = FenceOpen /\ ClosesAfter(s, i) # {} }
    IN  IF opens = {}
        THEN [found |-> FALSE, content |-> <<>>]
        ELSE [found |-> TRUE, content |-> FencedContent(s, Least(opens))]

\* PatternAt taking any opening brace for the pattern
AnyObjectAt(s, i) == Sym(s, i) = LBrace

\* r'\{\s*"test_cases":\s*\[' matches at position i
PatternAt(s, i) ==
    /\ Sym(s, i) = LBrace
    /\ Sym(s, i + 1) = StrTC
    /\ Sym(s, i + 2) = Colon
    /\ Sym(s, i + 3) = LBracket

\* lines 1156-1158: json_text.start() of re.search, 0 when there is no match
PatternStart(s) ==
    LET starts == { i \in 1 .. Len(s) : PatternAt(s, i) }
    IN  IF starts = {} THEN 0 ELSE Least(starts)

\* BraceStep skipping the braces that lie inside string literals
BraceStepOutsideStrings(sym) ==
    CASE sym = LBrace -> 1
      [] sym = RBrace -> -1
      [] OTHER -> 0

\* lines 1162-1165: what the characters of a symbol add to open_braces
BraceStep(sym) ==
    CASE sym \in {LBrace, StrOpen} -> 1
      [] sym \in {RBrace, StrClose} -> -1
      [] OTHER -> 0

RECURSIVE ScanFirstClose(_, _, _)
RECURSIVE Scan(_, _, _)

\* Scan stopping at the first closing brace, whatever the count
ScanFirstClose(s, i, n) ==
    CASE i > Len(s) -> 0
      [] i <= Len(s) /\ BraceStep(s[i]) = -1 -> i
      [] OTHER -> ScanFirstClose(s, i + 1, n)

\* lines 1160-1168: the loop from symbol i on with open_braces = n: the position
\* of the symbol whose closing brace brought the count to zero, 0 when the loop
\* ends with open_braces # 0
Scan(s, i, n) ==
    CASE i > Len(s) -> 0
      [] i <= Len(s) /\ BraceStep(s[i]) = -1 /\ n - 1 = 0 -> i
      [] OTHER -> Scan(s, i + 1, n + BraceStep(s[i]))

\* line 1171: response[start_idx:end_idx]; a brace inside a string literal ends
\* the substring inside that literal
BalancedText(s, start, end) ==
    IF s[end] = StrClose
    THEN Slice(s, start, end - 1) \o <<CutStr>>
    ELSE Slice(s, start, end)

\* the exceptions the parsing raises
JSONDecodeError == "json.JSONDecodeError"
FailedToParse == "HTTPException: Failed to parse model response as JSON"

\* How the parsing ended: raised is "none" or the exception, tier the tier whose
\* json.loads gave the value (0: none), tried the tiers that were entered.
Structured(v, tier, tried) ==
    [raised |-> "none", tier |-> tier, tried |-> tried, value |-> v]
Raising(e, tried) ==
    [raised |-> e, tier |-> 0, tried |-> tried, value |-> NoValue]

\* the three tiers, each on its own
Tier1(s) == Loads(s)

Tier2(s) ==
    IF FenceMatch(s).found THEN Loads(FenceMatch(s).content)
    ELSE [ok |-> FALSE, val |-> NoValue]

Tier3(s) ==
    LET start == PatternStart(s)
        end == IF start = 0 THEN 0 ELSE Scan(s, start, 0)
    IN  IF end = 0 THEN [ok |-> FALSE, val |-> NoValue]
        ELSE Loads(BalancedText(s, start, end))

\* lines 349-358 and 398-407: analyze_prd, generate_cucumber_features
ExtractTwoTier(s) ==
    IF Loads(s).ok
    THEN Structured(Loads(s).val, 1, {1})
    ELSE LET json_match == FenceMatch(s)
         IN  IF json_match.found
             THEN IF Loads(json_match.content).ok
                  THEN Structured(Loads(json_match.content).val, 2, {1, 2})
                  ELSE Raising(JSONDecodeError, {1, 2})
             ELSE Raising(FailedToParse, {1, 2})

\* ExtractThreeTier answering an empty object when nothing parses
ExtractThreeTierLenient(s) ==
    CASE Tier1(s).ok -> Structured(Tier1(s).val, 1, {1})
      [] ~Tier1(s).ok /\ FenceMatch(s).found /\ Tier2(s).ok ->
           Structured(Tier2(s).val, 2, {1, 2})
      [] ~Tier1(s).ok /\ ~FenceMatch(s).found /\ Tier3(s).ok ->
           Structured(Tier3(s).val, 3, {1, 2, 3})
      [] OTHER -> Structured(JObj(<<>>, <<>>), 0, {1, 2, 3})

\* lines 1146-1175: analyze_recording
ExtractThreeTier(s) ==
    IF Loads(s).ok
    THEN Structured(Loads(s).val, 1, {1})
    ELSE LET json_match == FenceMatch(s)
         IN  IF json_match.found
             THEN IF Loads(json_match.content).ok
                  THEN Structured(Loads(json_match.content).val, 2, {1, 2})
                  ELSE Raising(JSONDecodeError, {1, 2})
             ELSE LET start_idx == PatternStart(s)
                      end == IF start_idx = 0 THEN 0 ELSE Scan(s, start_idx, 0)
                  IN  CASE start_idx = 0 -> Raising(FailedToParse, {1, 2, 3})
                        [] start_idx # 0 /\ end = 0 -> Raising(FailedToParse, {1, 2, 3})
                        [] OTHER ->
                             LET found == Loads(BalancedText(s, start_idx, end))
                             IN  IF found.ok
                                 THEN Structured(found.val, 3, {1, 2, 3})
                                 ELSE Raising(JSONDecodeError, {1, 2, 3})

\* len(x) raises TypeError on a number
Sized(v) == v.kind \in {"string", "array", "object"}

\* lines 360 and 1177: len(result.get('test_cases', [])) raises unless result is
\* a dict whose test_cases, when present, has a length
CountsTestCases(v) ==
    /\ v.kind = "object"
    /\ \A i \in 1 .. Len(v.keys) : v.keys[i] = StrTC => Sized(v.items[i])

\* What the handler answers after parsing outcome r (lines 360-364, 409-413,
\* 1177-1181): the value with status 200, or HTTPException 500 made of whatever
\* was raised; counted tells whether the logging statement could take its length.
Answer(handler, r, counted) ==
    [handler |-> handler, raised |-> r.raised, tier |-> r.tier, tried |-> r.tried,
     value |-> r.value,
     status |-> IF r.raised = "none" /\ counted THEN 200 ELSE 500]

NotExtracted == Answer("none", Raising("none", {}), TRUE)

(***************************************************************************)
(* The response texts SpecExtract draws (the text lines 342, 391 and 1139  *)
(* receive from generate_text): every short sequence of symbols, and the   *)
(* serialisation of a JSON value, whole or damaged, alone, inside a fenced *)
(* block, or between pieces of prose.                                      *)
(***************************************************************************)
SeqsUpTo(S, n) == UNION { [1 .. k -> S] : k \in 0 .. n }

\* every text of up to n symbols
FreeTexts(n) == SeqsUpTo(Alphabet, n)

Leaves == {JNum(Num), JStr(StrA), JStr(StrOpen), JStr(StrClose)}
Flat == Leaves \cup {JArr(<<>>), JObj(<<>>, <<>>)}
Keys == {StrA, StrTC}

RECURSIVE Deep(_)
\* values nested up to d containers deep, one item in each container
Deep(d) ==
    IF d = 0 THEN Flat
    ELSE Flat \cup { JArr(<<x>>) : x \in Deep(d - 1) }
              \cup { JObj(<<k>>, <<x>>) : k \in Keys, x \in Deep(d - 1) }

\* the sequences of distinct keys
KeySeqs(w) == { ks \in SeqsUpTo(Keys, w) :
                  \A i, j \in 1 .. Len(ks) : ks[i] = ks[j] => i = j }

\* lists and dicts of up to w flat items
Wide(w) ==
    { JArr(xs) : xs \in SeqsUpTo(Flat, w) }
    \cup UNION { { JObj(ks, xs) : xs \in [1 .. Len(ks) -> Flat] } : ks \in KeySeqs(w) }

\* {"test_cases":[{"a":"a","test_cases":[{"a":1}]}],"a":"a"}
NestedExample ==
    JObj(<<StrTC, StrA>>,
         <<JArr(<<JObj(<<StrA, StrTC>>,
                       <<JStr(StrA), JArr(<<JObj(<<StrA>>, <<JNum(Num)>>)>>)>>)>>),
           JStr(StrA)>>)

\* the values drawn: nested up to d deep, up to w wide, and the example
JsonValues(d, w) == Deep(d) \cup Wide(w) \cup {NestedExample}

\* prose before and after; FencedWords is prose that holds a fenced block of words
FencedWords == <<FenceOpen, Word, FenceClose>>
Pres == {<<>>, <<Word>>, <<LBrace>>, <<Word, RBrace>>, FencedWords}
Posts == {<<>>, <<Word>>, <<RBrace>>, <<LBrace, Word>>}
WordsOnly(p) == \A i \in 1 .. Len(p) : p[i] = Word

\* a serialisation that lost its last symbol, and one with a word put into it
CutShort(b) == SubSeq(b, 1, Len(b) - 1)
WithWord(b) == <<b[1], Word>> \o SubSeq(b, 2, Len(b))

Body(form, v) ==
    CASE form \in {"fenced_cut", "embedded_cut"} -> CutShort(Serialise(v))
      [] form \in {"fenced_word", "embedded_word"} -> WithWord(Serialise(v))
      [] OTHER -> Serialise(v)

\* how a text is made: form, the value serialised, the prose around it
Made(form, v, pre, post) == [form |-> form, value |-> v, pre |-> pre, post |-> post]

MadeTexts(values) ==
    { Made("plain", v, <<>>, <<>>) : v \in values }
    \cup { Made("fenced", v, pre, post) :
             v \in values, pre \in {<<>>, <<Word>>}, post \in {<<>>, <<Word>>} }
    \cup { Made("embedded", v, pre, post) :
             v \in values, pre \in Pres, post \in Posts }
    \cup { Made(form, v, <<Word>>, post) :
             form \in {"fenced_cut", "fenced_word", "embedded_cut", "embedded_word"},
             v \in values, post \in {<<>>, <<RBrace>>} }

TextOf(m) ==
    IF m.form \in {"fenced", "fenced_cut", "fenced_word"}
    THEN m.pre \o <<FenceOpen>> \o Body(m.form, m.value) \o <<FenceClose>> \o m.post
    ELSE m.pre \o Body(m.form, m.value) \o m.post

NotMade == Made("none", NoValue, <<>>, <<>>)
FreeForm == Made("free", NoValue, <<>>, <<>>)

\* the string literals of a value's serialisation hold a brace character
HasBraceString(v) ==
    \E i \in 1 .. Len(Serialise(v)) : Serialise(v)[i] \in {StrOpen, StrClose}

(***************************************************************************)
(* What the last step of Spec did: the record kept in last.                *)
(*   op        the operation: "TokenManager" (the constructor), "init",    *)
(*             "generate" (one of the three generating handlers),          *)
(*             "test_api", or "tick" (time passed)                         *)
(*   outcome   its result: "ok", "text", or the failure it ended in        *)
(*   refreshes refresh_token executions in the operation                   *)
(*   refresh   "none", or "ok" / "failed": what refresh_token returned     *)
(*   resp      the identity endpoint's answer to that refresh              *)
(*   got       what get_token returned (NotCalled: it was not called)      *)
(*   posts     POSTs to the generation endpoint in the operation           *)
(*   bearer    the token sent with that POST                               *)
(***************************************************************************)
NoOp == [op |-> "none", outcome |-> "ok", refreshes |-> 0, refresh |-> "none",
         resp |-> NoResponse, got |-> NotCalled, posts |-> 0, bearer |-> NotCalled]

\* the part of the record a get_token call g fills
Observed(op, g, resp) ==
    [NoOp EXCEPT !.op = op, !.refreshes = g.refreshes, !.refresh = g.refresh,
                 !.resp = resp, !.got = g.token]

Install(tm) ==
    /\ token' = tm.token
    /\ expiry_time' = tm.expiry_time

Threads == 1 .. NThreads

Requests == 1 .. NRequests

\* the children of the launcher, in the order main starts them
Services == {"ai_service", "server", "client"}

\* no request has been sent, the event loop is free, no scan has begun and the
\* launcher is not looked at
AsideIdle ==
    /\ req = [r \in Requests |-> [stage |-> "idle", outcome |-> "none"]]
    /\ loop = 0
    /\ scan = [state |-> "before", start_idx |-> 0, pos |-> 0, open_braces |-> 0,
               end_idx |-> 0, broke |-> FALSE]
    /\ at = "not launched"
    /\ attempt = 0
    /\ proc = [s \in Services |-> "none"]
    /\ healthy = {}

\* no text is being parsed and no generate_text call is looked at
PureIdle ==
    /\ text = <<>>
    /\ made = NotMade
    /\ ext = NotExtracted
    /\ call = NoCall
    /\ reply = NoReply
    /\ AsideIdle

Init ==
    /\ api_key \in BOOLEAN
    /\ space_id \in BOOLEAN
    /\ phase = "boot"
    /\ token_manager = FALSE
    /\ watson_service = FALSE
    /\ token = None
    /\ expiry_time = 0
    /\ tokenFrom = 0
    /\ expiryFrom = 0
    /\ now = StartTime
    /\ iamCalls = 0
    /\ genCalls = 0
    /\ last = NoOp
    /\ pc = [t \in Threads |-> "idle"]
    /\ held = [t \in Threads |-> [id |-> 0, resp |-> NoResponse]]
    /\ obs = [thread |-> 0, token |-> None, tokenFrom |-> 0, expiryFrom |-> 0]
    /\ PureIdle

(***************************************************************************)
(* Module-level initialisation (app.py 191-218).                           *)
(***************************************************************************)
\* CredentialsMissing looking at the key only
KeyMissing(key, space) == ~key

\* line 192: if not api_key or not space_id
CredentialsMissing(key, space) == ~key \/ ~space

\* lines 192-196: no credentials: both globals are None, nothing is called
StartDisabled ==
    /\ phase = "boot"
    /\ CredentialsMissing(api_key, space_id)
    /\ phase' = "serving"
    /\ token_manager' = FALSE
    /\ watson_service' = FALSE
    /\ last' = [NoOp EXCEPT !.op = "init", !.outcome = "disabled"]
    /\ UNCHANGED <<cfgVars, tmVars, now, iamCalls, genCalls, concVars, pureVars, asideVars>>

\* line 200 and lines 148-152: token_manager = TokenManager(api_key)
CreateManager ==
    /\ phase = "boot"
    /\ ~CredentialsMissing(api_key, space_id)
    /\ iamCalls < MaxIamCalls
    /\ \E resp \in IdentityResponses :
         LET r == RefreshToken(NewManager, resp, now)
         IN  /\ Install(r.tm)
             /\ last' = [NoOp EXCEPT !.op = "TokenManager", !.refreshes = 1,
                                     !.refresh = IF r.ok THEN "ok" ELSE "failed",
                                     !.resp = resp]
    /\ phase' = "created"
    /\ token_manager' = TRUE
    /\ iamCalls' = iamCalls + 1
    /\ UNCHANGED <<cfgVars, watson_service, now, genCalls, concVars, pureVars, asideVars>>

\* lines 208-218: the service exists iff get_token gives a usable token now
StartService ==
    /\ phase = "created"
    /\ \E resp \in IdentityAnswers(Manager, now) :
         LET g == GetToken(Manager, resp, now)
         IN  /\ iamCalls + g.refreshes <= MaxIamCalls
             /\ Install(g.tm)
             /\ iamCalls' = iamCalls + g.refreshes
             /\ watson_service' = ~Falsy(g.token)
             /\ last' = [Observed("init", g, resp) EXCEPT
                            !.outcome = IF Falsy(g.token) THEN "No valid token available"
                                        ELSE "ok"]
    /\ phase' = "serving"
    /\ UNCHANGED <<cfgVars, token_manager, now, genCalls, concVars, pureVars, asideVars>>

\* ServiceMissing finding a service wherever it looks
ServiceNeverMissing(service) == FALSE

(***************************************************************************)
(* The handlers that generate (app.py 318-346, 366-395, 1051-1143) up to   *)
(* the text generate_text returns.                                         *)
(***************************************************************************)
\* lines 324, 370, 1057: if not watson_service
ServiceMissing(service) == ~service

Generate ==
    /\ phase = "serving"
    /\ IF ServiceMissing(watson_service)
       THEN /\ last' = [NoOp EXCEPT !.op = "generate",
                                    !.outcome = "service not initialized"]
            /\ UNCHANGED <<tmVars, iamCalls, genCalls>>
       ELSE \E resp \in IdentityAnswers(Manager, now) :
            \E gresp \in GenAnswers(GetToken(Manager, resp, now).token) :
              LET r == GenerateText(Manager, resp, now, gresp)
              IN  /\ iamCalls + r.g.refreshes <= MaxIamCalls
                  /\ genCalls + r.posts <= MaxGenCalls
                  /\ Install(r.g.tm)
                  /\ iamCalls' = iamCalls + r.g.refreshes
                  /\ genCalls' = genCalls + r.posts
                  /\ last' = [Observed("generate", r.g, resp) EXCEPT
                                 !.outcome = r.outcome, !.posts = r.posts,
                                 !.bearer = r.bearer]
    /\ UNCHANGED <<cfgVars, phase, token_manager, watson_service, now, concVars, pureVars, asideVars>>

analyze_prd == Generate

generate_cucumber_features == Generate

analyze_recording == Generate

\* lines 466-525: test_api uses token_manager directly
test_api ==
    /\ phase = "serving"
    /\ IF ~token_manager
       THEN /\ last' = [NoOp EXCEPT !.op = "test_api",
                                    !.outcome = "Token manager not initialized"]
            /\ UNCHANGED <<tmVars, iamCalls, genCalls>>
       ELSE \E resp \in IdentityAnswers(Manager, now) :
            \E gresp \in GenAnswers(GetToken(Manager, resp, now).token) :
              LET g == GetToken(Manager, resp, now)
                  posts == IF Falsy(g.token) THEN 0 ELSE 1
              IN  /\ iamCalls + g.refreshes <= MaxIamCalls
                  /\ genCalls + posts <= MaxGenCalls
                  /\ Install(g.tm)
                  /\ iamCalls' = iamCalls + g.refreshes
                  /\ genCalls' = genCalls + posts
                  /\ last' = [Observed("test_api", g, resp) EXCEPT
                                 !.outcome = CASE Falsy(g.token) -> "Failed to obtain token"
                                               [] gresp.status = 0 -> "Exception occurred"
                                               [] gresp.status # 200 -> "API call failed"
                                               [] OTHER -> "success",
                                 !.posts = posts,
                                 !.bearer = IF posts = 1 THEN g.token ELSE NotCalled]
    /\ UNCHANGED <<cfgVars, phase, token_manager, watson_service, now, concVars, pureVars, asideVars>>

\* time passes between operations
Tick ==
    /\ phase # "boot"
    /\ \E d \in TickDeltas :
         /\ now + d <= MaxNow
         /\ now' = now + d
    /\ last' = [NoOp EXCEPT !.op = "tick"]
    /\ UNCHANGED <<cfgVars, phase, token_manager, watson_service, tmVars,
                   iamCalls, genCalls, concVars, pureVars, asideVars>>

Next ==
    \/ StartDisabled
    \/ CreateManager
    \/ StartService
    \/ analyze_prd
    \/ generate_cucumber_features
    \/ analyze_recording
    \/ test_api
    \/ Tick

Spec == Init /\ [][Next]_vars

(***************************************************************************)
(* SpecConc: get_token called from several threads on the one manager.     *)
(* It starts in the state Spec reaches when start-up installed a token     *)
(* that is due for renewal as soon as the clock moves (StartedUp), and     *)
(* interleaves the statements of get_token and refresh_token.  The         *)
(* responses it draws carry a usable expires_in, so that every mismatch it *)
(* shows between token and expiry_time is the interleaving's.              *)
(***************************************************************************)
StartedUp ==
    /\ api_key = TRUE
    /\ space_id = TRUE
    /\ phase = "serving"
    /\ token_manager = TRUE
    /\ watson_service = TRUE
    /\ token = "tokA"
    /\ expiry_time = StartTime
    /\ now = StartTime
    /\ iamCalls = 1
    /\ genCalls = 0
    /\ last = [NoOp EXCEPT !.op = "init", !.got = "tokA"]

\* the service is up and no thread is inside get_token
Serving ==
    /\ StartedUp
    /\ tokenFrom = 1
    /\ expiryFrom = 1
    /\ pc = [t \in Threads |-> "idle"]
    /\ held = [t \in Threads |-> [id |-> 0, resp |-> NoResponse]]
    /\ obs = [thread |-> 0, token |-> None, tokenFrom |-> 0, expiryFrom |-> 0]

InitConc ==
    /\ Serving
    /\ PureIdle

ConcResponses == { r \in IdentityResponses : ExpiresInUsable(r) }

seqVars == <<cfgVars, phase, token_manager, watson_service, genCalls, last, pureVars, asideVars>>

\* line 187, evaluated by thread t
GT_Check(t) ==
    /\ pc[t] = "idle"
    /\ pc' = [pc EXCEPT ![t] = IF NeedsRefresh(now, expiry_time) THEN "post" ELSE "return"]
    /\ UNCHANGED <<seqVars, tmVars, tokenFrom, expiryFrom, now, iamCalls, held, obs>>

\* lines 158-165: thread t sends the POST to the identity endpoint
RT_Post(t) ==
    /\ pc[t] = "post"
    /\ iamCalls < MaxIamCalls
    /\ iamCalls' = iamCalls + 1
    /\ held' = [held EXCEPT ![t] = [id |-> iamCalls + 1, resp |-> NoResponse]]
    /\ pc' = [pc EXCEPT ![t] = "wait"]
    /\ UNCHANGED <<seqVars, tmVars, tokenFrom, expiryFrom, now, obs>>

\* lines 165-172: the answer arrives; a refusal returns False (lines 170, 183)
RT_Response(t) ==
    /\ pc[t] = "wait"
    /\ \E resp \in ConcResponses :
         /\ held' = [held EXCEPT ![t].resp = resp]
         /\ pc' = [pc EXCEPT ![t] = IF ResponseAccepted(resp) THEN "set_token" ELSE "return"]
    /\ UNCHANGED <<seqVars, tmVars, tokenFrom, expiryFrom, now, iamCalls, obs>>

\* line 173: self.token = ...
RT_SetToken(t) ==
    /\ pc[t] = "set_token"
    /\ token' = AccessTokenOf(held[t].resp)
    /\ tokenFrom' = held[t].id
    /\ pc' = [pc EXCEPT ![t] = IF ExpiresInUsable(held[t].resp) THEN "set_expiry"
                                ELSE "return"]
    /\ UNCHANGED <<seqVars, expiry_time, expiryFrom, now, iamCalls, held, obs>>

\* lines 174-180: self.expiry_time = ...
RT_SetExpiry(t) ==
    /\ pc[t] = "set_expiry"
    /\ expiry_time' = NewExpiry(now, ExpiresInOf(held[t].resp))
    /\ expiryFrom' = held[t].id
    /\ pc' = [pc EXCEPT ![t] = "return"]
    /\ UNCHANGED <<seqVars, token, tokenFrom, now, iamCalls, held, obs>>

\* line 189: return self.token
GT_Return(t) ==
    /\ pc[t] = "return"
    /\ obs' = [thread |-> t, token |-> token, tokenFrom |-> tokenFrom,
               expiryFrom |-> expiryFrom]
    /\ held' = [held EXCEPT ![t] = [id |-> 0, resp |-> NoResponse]]
    /\ pc' = [pc EXCEPT ![t] = "idle"]
    /\ UNCHANGED <<seqVars, tmVars, tokenFrom, expiryFrom, now, iamCalls>>

NextConc ==
    \/ \E t \in Threads : GT_Check(t)
    \/ \E t \in Threads : RT_Post(t)
    \/ \E t \in Threads : RT_Response(t)
    \/ \E t \in Threads : RT_SetToken(t)
    \/ \E t \in Threads : RT_SetExpiry(t)
    \/ \E t \in Threads : GT_Return(t)
    \/ Tick

SpecConc == InitConc /\ [][NextConc]_vars

\* the identity calls in flight
InFlight == { t \in Threads : pc[t] = "wait" }

(***************************************************************************)
(* SpecExtract: the parsing of one response text by each of the three      *)
(* generating handlers.  The service is up (Serving); the text is what     *)
(* generate_text returned.                                                 *)
(***************************************************************************)
InitExtract ==
    /\ Serving
    /\ \/ \E m \in MadeTexts(JsonValues(MaxDepth, MaxWidth)) :
            made = m /\ text = TextOf(m)
       \/ made = FreeForm /\ text \in FreeTexts(MaxLen)
    /\ ext = NotExtracted
    /\ call = NoCall
    /\ reply = NoReply
    /\ AsideIdle

restVars == <<cfgVars, phase, token_manager, watson_service, tmVars, now,
              iamCalls, genCalls, last, concVars>>

\* lines 348-364
analyze_prd_parse ==
    /\ ext = NotExtracted
    /\ LET r == ExtractTwoTier(text)
       IN  ext' = Answer("analyze_prd", r, CountsTestCases(r.value))
    /\ UNCHANGED <<restVars, text, made, call, reply, asideVars>>

\* lines 397-413: the logging statement takes len(result)
generate_cucumber_features_parse ==
    /\ ext = NotExtracted
    /\ LET r == ExtractTwoTier(text)
       IN  ext' = Answer("generate_cucumber_features", r, Sized(r.value))
    /\ UNCHANGED <<restVars, text, made, call, reply, asideVars>>

\* lines 1145-1181
analyze_recording_parse ==
    /\ ext = NotExtracted
    /\ LET r == ExtractThreeTier(text)
       IN  ext' = Answer("analyze_recording", r, CountsTestCases(r.value))
    /\ UNCHANGED <<restVars, text, made, call, reply, asideVars>>

NextExtract ==
    \/ analyze_prd_parse
    \/ generate_cucumber_features_parse
    \/ analyze_recording_parse

SpecExtract == InitExtract /\ [][NextExtract]_vars

(***************************************************************************)
(* SpecGen: one call of generate_text (app.py 54-111) with the arguments a *)
(* caller can pass.  The manager holds what the last refresh stored: a     *)
(* token, an empty string or None (a 200 answer without access_token),     *)
(* not yet due for renewal; the generation endpoint answers only a call    *)
(* that reaches it.                                                        *)
(***************************************************************************)
InitGen ==
    /\ api_key = TRUE
    /\ space_id = TRUE
    /\ phase = "serving"
    /\ token_manager = TRUE
    /\ watson_service = TRUE
    /\ token \in Tokens \cup {None}
    /\ now = StartTime + 1
    /\ expiry_time = NewExpiry(now, 1)
    /\ iamCalls = 2
    /\ genCalls = 0
    /\ last = [NoOp EXCEPT !.op = "tick"]
    /\ tokenFrom = 0
    /\ expiryFrom = 0
    /\ pc = [t \in Threads |-> "idle"]
    /\ held = [t \in Threads |-> [id |-> 0, resp |-> NoResponse]]
    /\ obs = [thread |-> 0, token |-> None, tokenFrom |-> 0, expiryFrom |-> 0]
    /\ text = <<>>
    /\ made = NotMade
    /\ ext = NotExtracted
    /\ \E sp \in SystemPrompts, ps \in CallerParams, gresp \in GenAnswers(token) :
         call = [system_prompt |-> sp, params |-> ps, gresp |-> gresp]
    /\ reply = NoReply
    /\ AsideIdle

\* lines 54-111: the call; the payload is built once the token was accepted
generate_text ==
    /\ reply = NoReply
    /\ LET r == GenerateText(Manager, NoResponse, now, call.gresp)
       IN  /\ Install(r.g.tm)
           /\ genCalls' = genCalls + r.posts
           /\ reply' = [outcome |-> r.outcome,
                        raised |-> ExceptionOf(r.outcome, call.gresp),
                        text |-> IF r.outcome = "text"
                                 THEN GeneratedText(call.gresp) ELSE None,
                        payload |-> IF r.posts = 1
                                    THEN Payload(call.system_prompt, call.params)
                                    ELSE NoPayload,
                        bearer |-> r.bearer]
    /\ UNCHANGED <<cfgVars, phase, token_manager, watson_service, now, iamCalls,
                   last, concVars, text, made, ext, call, asideVars>>

NextGen == generate_text

SpecGen == InitGen /\ [][NextGen]_vars

\* the call reached the generation endpoint
Posted == reply.bearer # NotCalled

(***************************************************************************)
(***************************************************************************)
(* SpecServe: the requests of several clients on the one event loop that   *)
(* uvicorn runs (app.py 1186).  Every handler is an async def without an   *)
(* await (319, 367, 1052): once the loop has entered a handler it runs     *)
(* nothing else until the handler returns, the calls of requests.post      *)
(* (92-96, 156-165) included.  Those calls pass no timeout argument, so    *)
(* requests waits for the answer as long as the endpoint is silent: the    *)
(* only steps that end a call are the endpoints' answers.                  *)
(* req[r].stage is "idle" (not sent), "queued" (received, handler not      *)
(* entered), "refresh_post" / "generation_post" (inside that call of       *)
(* requests.post) or "answered".                                           *)
(***************************************************************************)
InitServe ==
    /\ Serving
    /\ PureIdle

\* a client sends request r
Arrive(r) ==
    /\ req[r].stage = "idle"
    /\ req' = [req EXCEPT ![r].stage = "queued"]
    /\ UNCHANGED <<cfgVars, phase, token_manager, watson_service, tmVars, now,
                   iamCalls, genCalls, last, concVars, pureVars, loop, scanVars,
                   launchVars>>

\* lines 58-96, entered with token tok from get_token: no POST for a token
\* that is None or empty, else the generation POST is sent and waited for
Proceed(r, tok) ==
    IF TokenRejected(tok)
    THEN /\ req' = [req EXCEPT ![r] = [stage |-> "answered",
                                       outcome |-> "Failed to obtain valid token"]]
         /\ loop' = 0
         /\ UNCHANGED genCalls
    ELSE /\ req' = [req EXCEPT ![r].stage = "generation_post"]
         /\ loop' = r
         /\ genCalls' = genCalls + 1

\* lines 319-346, 58 and 185-189: the free loop enters the handler of a queued
\* request, which runs up to its first call of requests.post
Dispatch(r) ==
    /\ loop = 0
    /\ req[r].stage = "queued"
    /\ ~ServiceMissing(watson_service)
    /\ IF NeedsRefresh(now, expiry_time)
       THEN /\ req' = [req EXCEPT ![r].stage = "refresh_post"]
            /\ loop' = r
            /\ iamCalls' = iamCalls + 1
            /\ UNCHANGED genCalls
       ELSE /\ Proceed(r, token)
            /\ UNCHANGED iamCalls
    /\ UNCHANGED <<cfgVars, phase, token_manager, watson_service, tmVars, now,
                   last, concVars, pureVars, scanVars, launchVars>>

\* lines 156-183 and 189: the identity endpoint answers the refresh of request
\* r; get_token returns the stored token and generate_text goes on
IdentityReplies(r) ==
    /\ req[r].stage = "refresh_post"
    /\ \E resp \in IdentityResponses :
         LET g == RefreshToken(Manager, resp, now)
         IN  /\ Install(g.tm)
             /\ Proceed(r, g.tm.token)
    /\ UNCHANGED <<cfgVars, phase, token_manager, watson_service, now, iamCalls,
                   last, concVars, pureVars, scanVars, launchVars>>

\* lines 92-111: the generation endpoint answers the POST of request r and the
\* handler returns
GenerationReplies(r) ==
    /\ req[r].stage = "generation_post"
    /\ \E gresp \in GenResponses :
         req' = [req EXCEPT ![r] = [stage |-> "answered",
                                    outcome |-> ResponseOutcome(gresp)]]
    /\ loop' = 0
    /\ UNCHANGED <<cfgVars, phase, token_manager, watson_service, tmVars, now,
                   iamCalls, genCalls, last, concVars, pureVars, scanVars, launchVars>>

\* time passes, whatever the loop is doing
Pass ==
    /\ now < MaxNow
    /\ now' = now + 1
    /\ UNCHANGED <<cfgVars, phase, token_manager, watson_service, tmVars,
                   iamCalls, genCalls, last, concVars, pureVars, asideVars>>

NextServe ==
    \/ \E r \in Requests : Arrive(r)
    \/ \E r \in Requests : Dispatch(r)
    \/ \E r \in Requests : IdentityReplies(r)
    \/ \E r \in Requests : GenerationReplies(r)
    \/ Pass

\* The loop enters the handler of a queued request whenever it stays free; the
\* endpoints are under no obligation to answer.
SpecServe ==
    /\ InitServe
    /\ [][NextServe]_vars
    /\ \A r \in Requests : WF_vars(Dispatch(r))

(***************************************************************************)
(* SpecScan: the balanced scan of analyze_recording (app.py 1156-1173),    *)
(* one iteration of its loop at a time, on the texts SpecExtract draws.    *)
(* scan holds the locals: start_idx and pos are positions of symbols (from *)
(* 1), pos the symbol the loop looks at; end_idx is the position after the *)
(* symbol that holds the closing brace, 0 while the name is unassigned;    *)
(* broke tells that the loop was left by its break.  state: "before",      *)
(* "loop", "after" (the loop is over, line 1170 is next), "taken" (line    *)
(* 1171 took the substring), "failed" (line 1173), "skipped" (the text     *)
(* never came to line 1158), "unbound" (line 1171 read an unassigned       *)
(* end_idx).                                                               *)
(***************************************************************************)
InitScan ==
    /\ Serving
    /\ \/ \E m \in MadeTexts(JsonValues(MaxDepth, MaxWidth)) :
            made = m /\ text = TextOf(m)
       \/ made = FreeForm /\ text \in FreeTexts(MaxLen)
    /\ ext = NotExtracted
    /\ call = NoCall
    /\ reply = NoReply
    /\ AsideIdle

\* lines 1146-1160: the first two tiers fail and the pattern is found
scan_enter ==
    /\ scan.state = "before"
    /\ scan' = IF ~Loads(text).ok /\ ~FenceMatch(text).found /\ PatternStart(text) # 0
               THEN [scan EXCEPT !.state = "loop", !.start_idx = PatternStart(text),
                                 !.pos = PatternStart(text)]
               ELSE [scan EXCEPT !.state = "skipped"]
    /\ UNCHANGED <<restVars, pureVars, serveVars, launchVars>>

\* ScanStep going on after the count came back to zero
ScanStepNoBreak(sc, s) ==
    LET n == sc.open_braces + BraceStep(s[sc.pos])
    IN  [sc EXCEPT !.open_braces = n,
                   !.end_idx = IF n = 0 THEN sc.pos + 1 ELSE sc.end_idx,
                   !.pos = sc.pos + 1,
                   !.state = IF sc.pos + 1 > Len(s) THEN "after" ELSE "loop"]

\* lines 1161-1168: one iteration, on the symbol at sc.pos of s
ScanStep(sc, s) ==
    LET n == sc.open_braces + BraceStep(s[sc.pos])
    IN  IF BraceStep(s[sc.pos]) = -1 /\ n = 0
        THEN [sc EXCEPT !.open_braces = n, !.end_idx = sc.pos + 1,
                        !.broke = TRUE, !.state = "after"]
        ELSE [sc EXCEPT !.open_braces = n, !.pos = sc.pos + 1,
                        !.state = IF sc.pos + 1 > Len(s) THEN "after" ELSE "loop"]

scan_char ==
    /\ scan.state = "loop"
    /\ scan' = ScanStep(scan, text)
    /\ UNCHANGED <<restVars, pureVars, serveVars, launchVars>>

\* lines 1170-1173
scan_leave ==
    /\ scan.state = "after"
    /\ scan' = [scan EXCEPT !.state = CASE scan.open_braces # 0 -> "failed"
                                        [] scan.open_braces = 0 /\ scan.end_idx = 0 -> "unbound"
                                        [] OTHER -> "taken"]
    /\ UNCHANGED <<restVars, pureVars, serveVars, launchVars>>

NextScan ==
    \/ scan_enter
    \/ scan_char
    \/ scan_leave

SpecScan == InitScan /\ [][NextScan]_vars

(***************************************************************************)
(* SpecLaunch: the launcher (start_app.py 268-473) from the moment its     *)
(* checks have passed (line 458).  at is the launcher's position:          *)
(* "start_ai_service", "ai_service health" (the loop 311-334),             *)
(* "start_server", "server health" (the loop 380-387), "start_client",     *)
(* "all started" (line 470) or "exit 1" (sys.exit(1) at 460, 464, 468).    *)
(* A child is "none" before its Popen, then "running", "exited" (it ended  *)
(* by itself) or "terminated" (the launcher called terminate() on it).     *)
(* The AI service of the launcher is a process of its own: the variables   *)
(* of app.py keep their values of before its start.                        *)
(***************************************************************************)
max_attempts == 30

\* what requests.get on a health URL ends in; a child that is not running
\* leaves the port closed
HealthAnswers(child) ==
    IF child = "running"
    THEN {"200", "other status", "ConnectionError", "other exception"}
    ELSE {"ConnectionError"}

\* p after terminate() on the processes S (no effect on one that has ended)
Terminate(p, S) ==
    [s \in Services |-> IF s \in S /\ p[s] = "running" THEN "terminated" ELSE p[s]]

\* AiPollStep taking any HTTP answer for a healthy service
AiPollStepAnyAnswer(answer, child, n) ==
    CASE answer \in {"200", "other status"} -> "return process"
      [] answer = "ConnectionError" /\ child # "running" -> "return None"
      [] answer \notin {"200", "other status"}
           /\ ~(answer = "ConnectionError" /\ child # "running")
           /\ n = max_attempts -> "give up"
      [] OTHER -> "retry"

\* lines 311-349: attempt n of start_ai_service's loop, the health URL ending
\* in answer: 200 returns the process; a refused connection returns None when
\* the child has ended; the 30th attempt without success gives up
AiPollStep(answer, child, n) ==
    CASE answer = "200" -> "return process"
      [] answer = "ConnectionError" /\ child # "running" -> "return None"
      [] answer # "200" /\ ~(answer = "ConnectionError" /\ child # "running")
           /\ n = max_attempts -> "give up"
      [] OTHER -> "retry"

\* lines 380-397: attempt n of start_server's loop: only ConnectionError is
\* caught inside the loop, any other exception leaves through line 393
ServerPollStep(answer, n) ==
    CASE answer = "200" -> "return process"
      [] answer = "other exception" -> "except"
      [] answer \in {"other status", "ConnectionError"} /\ n = max_attempts -> "give up"
      [] OTHER -> "retry"

InitLaunch ==
    /\ api_key = TRUE
    /\ space_id = TRUE
    /\ phase = "boot"
    /\ token_manager = FALSE
    /\ watson_service = FALSE
    /\ token = None
    /\ expiry_time = 0
    /\ tokenFrom = 0
    /\ expiryFrom = 0
    /\ now = StartTime
    /\ iamCalls = 0
    /\ genCalls = 0
    /\ last = NoOp
    /\ pc = [t \in Threads |-> "idle"]
    /\ held = [t \in Threads |-> [id |-> 0, resp |-> NoResponse]]
    /\ obs = [thread |-> 0, token |-> None, tokenFrom |-> 0, expiryFrom |-> 0]
    /\ text = <<>>
    /\ made = NotMade
    /\ ext = NotExtracted
    /\ call = NoCall
    /\ reply = NoReply
    /\ req = [r \in Requests |-> [stage |-> "idle", outcome |-> "none"]]
    /\ loop = 0
    /\ scan = [state |-> "before", start_idx |-> 0, pos |-> 0, open_braces |-> 0,
               end_idx |-> 0, broke |-> FALSE]
    /\ at = "start_ai_service"
    /\ attempt = 0
    /\ proc = [s \in Services |-> "none"]
    /\ healthy = {}

appVars == <<restVars, pureVars, serveVars, scanVars>>

\* lines 268-309 and 458-460: app.py is missing or Popen raises (no child), the
\* child has ended by the first poll(), or it runs and the loop begins
start_ai_service ==
    /\ at = "start_ai_service"
    /\ \E how \in {"no app.py", "Popen raises", "exited at once", "started"} :
         /\ proc' = CASE how = "started" -> [proc EXCEPT !["ai_service"] = "running"]
                      [] how = "exited at once" -> [proc EXCEPT !["ai_service"] = "exited"]
                      [] OTHER -> proc
         /\ at' = IF how = "started" THEN "ai_service health" ELSE "exit 1"
         /\ attempt' = IF how = "started" THEN 1 ELSE 0
    /\ UNCHANGED <<appVars, healthy>>

\* lines 311-349 and 458-460: one attempt of the loop and what follows it
ai_health_check ==
    /\ at = "ai_service health"
    /\ \E answer \in HealthAnswers(proc["ai_service"]) :
         LET verdict == AiPollStep(answer, proc["ai_service"], attempt)
         IN  /\ at' = CASE verdict = "return process" -> "start_server"
                        [] verdict = "retry" -> at
                        [] OTHER -> "exit 1"
             /\ attempt' = IF verdict = "retry" THEN attempt + 1 ELSE 0
             /\ proc' = IF verdict = "give up" THEN Terminate(proc, {"ai_service"}) ELSE proc
             /\ healthy' = IF answer = "200" THEN healthy \cup {"ai_service"} ELSE healthy
    /\ UNCHANGED appVars

\* lines 355-379, 393-397 and 462-464: Popen gives the server or raises
start_server ==
    /\ at = "start_server"
    /\ \E spawned \in BOOLEAN :
         /\ proc' = IF spawned THEN [proc EXCEPT !["server"] = "running"]
                    ELSE Terminate(proc, {"ai_service"})
         /\ at' = IF spawned THEN "server health" ELSE "exit 1"
         /\ attempt' = IF spawned THEN 1 ELSE 0
    /\ UNCHANGED <<appVars, healthy>>

\* lines 380-397 and 462-464: one attempt of the loop and what follows it
server_health_check ==
    /\ at = "server health"
    /\ \E answer \in HealthAnswers(proc["server"]) :
         LET verdict == ServerPollStep(answer, attempt)
         IN  /\ at' = CASE verdict = "return process" -> "start_client"
                        [] verdict = "retry" -> at
                        [] OTHER -> "exit 1"
             /\ attempt' = IF verdict = "retry" THEN attempt + 1 ELSE 0
             /\ proc' = CASE verdict = "give up" -> Terminate(proc, {"server", "ai_service"})
                          [] verdict = "except" -> Terminate(proc, {"ai_service"})
                          [] OTHER -> proc
             /\ healthy' = IF answer = "200" THEN healthy \cup {"server"} ELSE healthy
    /\ UNCHANGED appVars

\* lines 399-435 and 466-470: Popen gives the client, which is not polled, or raises
start_client ==
    /\ at = "start_client"
    /\ \E spawned \in BOOLEAN :
         /\ proc' = IF spawned THEN [proc EXCEPT !["client"] = "running"]
                    ELSE Terminate(proc, {"ai_service", "server"})
         /\ at' = IF spawned THEN "all started" ELSE "exit 1"
    /\ UNCHANGED <<appVars, attempt, healthy>>

\* a child ends by itself while the launcher is starting the services
child_exits ==
    /\ at \in {"ai_service health", "start_server", "server health", "start_client"}
    /\ \E s \in Services :
         /\ proc[s] = "running"
         /\ proc' = [proc EXCEPT ![s] = "exited"]
    /\ UNCHANGED <<appVars, at, attempt, healthy>>

NextLaunch ==
    \/ start_ai_service
    \/ ai_health_check
    \/ start_server
    \/ server_health_check
    \/ start_client
    \/ child_exits

SpecLaunch == InitLaunch /\ [][NextLaunch]_vars

(***************************************************************************)
(* Properties.                                                             *)
(***************************************************************************)

\* C1: a refresh that the identity endpoint refuses (non-200) or that never
\* reaches it (transport error) returns False and leaves token and expiry_time as
\* they were, and the get_token that made it returns the token stored before; a
\* get_token called at or before the stored expiry returns the stored token.
C1_FailedRefreshKeepsCredential ==
    [][ /\ (last'.refreshes = 1 /\ last'.resp.status # 200) =>
              /\ last'.refresh = "failed"
              /\ token' = token
              /\ expiry_time' = expiry_time
              /\ (last'.got # NotCalled => last'.got = token)
        /\ (last'.got # NotCalled /\ last'.refreshes = 0) =>
              /\ last'.got = token
              /\ token' = token
              /\ expiry_time' = expiry_time ]_vars

\* a refresh answered 500 has happened and the token installed before is still
\* stored and was returned
C1_Witness ==
    /\ last.refreshes = 1
    /\ last.resp.status = 500
    /\ last.got = "tokA"
    /\ token = "tokA"

\* C2 (as claimed): when the refresh made by get_token fails, get_token returns no
\* usable token (None or ""), and it makes that one refresh only.  Stated for a
\* manager whose expiry_time was set by an earlier successful refresh and for the
\* refreshes that fail before refresh_token has stored anything: the endpoint
\* refused, could not be reached, or sent a body that is no JSON object.
C2_UnavailableAfterFailedRefresh ==
    (last.got # NotCalled /\ last.refreshes = 1 /\ expiry_time > 0
       /\ (last.resp.status # 200 \/ last.resp.body # "json")) =>
        (last.refresh = "failed" /\ (last.got = None \/ last.got = ""))

C4_RefreshWhenNoToken ==
    [][ (last'.got # NotCalled /\ token = None) => last'.refreshes = 1 ]_vars

\* C5: no POST to the generation endpoint carries an absent or empty token; when
\* get_token yields None or "", generate_text fails without a POST.
C5_EmptyTokenNeverSent ==
    /\ last.posts = 1 => (last.bearer = last.got /\ last.bearer # None /\ last.bearer # "")
    /\ (last.op = "generate" /\ (last.got = None \/ last.got = "")) =>
          (last.posts = 0 /\ last.outcome = "Failed to obtain valid token")

\* generate_text got the empty string from get_token and stopped
C5_Witness ==
    /\ last.op = "generate"
    /\ last.got = ""
    /\ last.posts = 0

\* C6: with the API key or the space id missing, no HTTP call is ever made, the
\* service does not exist and every generating request fails for that reason.
C6_DisabledMakesNoCalls ==
    (~api_key \/ ~space_id) =>
        /\ iamCalls = 0
        /\ genCalls = 0
        /\ ~watson_service
        /\ ~token_manager
        /\ last.op = "generate" =>
              /\ last.outcome = "service not initialized"
              /\ last.got = NotCalled
              /\ last.refreshes = 0
              /\ last.posts = 0

\* a generating request was answered with the key present and the space id missing
C6_Witness ==
    /\ api_key
    /\ ~space_id
    /\ last.op = "generate"

\* C7 (as claimed): at most one identity call is in flight at any time.
C7_OneRefreshInFlight == Cardinality(InFlight) <= 1

\* C8 (as claimed): the token and the expiry_time a get_token caller finds stored
\* come from one and the same identity response.
C8_PairFromOneResponse == obs.tokenFrom = obs.expiryFrom

\* C9 (as claimed): a manager whose initial refresh failed holds no usable token
\* (None or "") and expiry 0.
C9_FailedConstructionHoldsNothing ==
    (last.op = "TokenManager" /\ last.refresh = "failed") =>
        ((token = None \/ token = "") /\ expiry_time = 0)

\* C10: after a successful refresh expiry_time is the time of the refresh plus 0.9
\* times expires_in (3600 when the response has none), in tenths of a second; it
\* lies strictly before the time of the refresh plus expires_in when expires_in > 0.
C10_ExpiryIsNinetyPercent ==
    last.refresh = "ok" =>
        LET e == IF last.resp.expires_in_kind = "absent" THEN 3600
                 ELSE last.resp.expires_in
        IN  /\ expiry_time = now + 9 * e
            /\ e > 0 => expiry_time < now + 10 * e

\* a refresh succeeded on a response without expires_in
C10_Witness ==
    /\ last.refresh = "ok"
    /\ last.resp.expires_in_kind = "absent"
    /\ expiry_time = now + 32400

\* C11: analyze_recording tries direct parse, fenced block and balanced scan in
\* that order; the first tier that parses gives the result, a later tier is tried
\* whenever every earlier one failed, and the parsing fails only after all three
\* tiers were tried.
C11_EveryTierTriedBeforeFailure ==
    ext.handler = "analyze_recording" =>
        /\ Tier1(text).ok => ext.tier = 1 /\ ext.value = Tier1(text).val
        /\ ~Tier1(text).ok /\ Tier2(text).ok =>
              ext.tier = 2 /\ ext.value = Tier2(text).val
        /\ ~Tier1(text).ok /\ ~Tier2(text).ok /\ Tier3(text).ok =>
              ext.tier = 3 /\ ext.value = Tier3(text).val
        /\ ext.raised # "none" => ext.tried = {1, 2, 3}

\* a text of words, one JSON object and words, without a fenced block
ProseAroundObject ==
    /\ made.form = "embedded"
    /\ made.value.kind = "object"
    /\ made.pre = <<Word>>
    /\ made.post = <<Word>>

\* C12: for a text of leading prose, one well-formed JSON object and trailing
\* prose, without a fenced block, analyze_recording returns that object through
\* the balanced-scan tier, whatever the top-level keys of the object.
C12_AnyObjectInProseIsFound ==
    (ext.handler = "analyze_recording" /\ ProseAroundObject) =>
        ext.raised = "none" /\ ext.tier = 3 /\ ext.value = made.value

\* the object opens with {"test_cases":[
OpensWithTestCases(v) ==
    /\ v.kind = "object"
    /\ Len(v.keys) >= 1
    /\ v.keys[1] = StrTC
    /\ v.items[1].kind = "array"

\* C12, amended: for such a text whose object has no brace character inside a
\* string, analyze_recording returns the object through the balanced-scan tier
\* exactly when the object opens with {"test_cases":[ ; any other object is
\* never returned whole, and {"a":1} between prose ends in the HTTPException.
C12_ObjectInProseFoundIffTestCases ==
    (ext.handler = "analyze_recording" /\ ProseAroundObject
        /\ ~HasBraceString(made.value)) =>
        IF OpensWithTestCases(made.value)
        THEN ext.raised = "none" /\ ext.tier = 3 /\ ext.value = made.value
        ELSE /\ ext.value # made.value
             /\ ext.raised \in {"none", FailedToParse}
             /\ made.value = JObj(<<StrA>>, <<JNum(Num)>>) =>
                   ext.raised = FailedToParse /\ ext.status = 500

\* C12: both sides happen: an object that opens with the pattern was returned
C12_Witness ==
    /\ ext.handler = "analyze_recording"
    /\ ProseAroundObject
    /\ made.value = NestedExample
    /\ ext.tier = 3
    /\ ext.value = NestedExample

\* C13: for every JSON value v, each handler parsing the exact serialisation of
\* v returns v by the direct parse, and parsing that serialisation inside a
\* fenced block, with or without words of prose around the block, returns the
\* same v by the fenced-block tier.
C13_RoundTripThroughTiersOneAndTwo ==
    ext.handler # "none" =>
        /\ made.form = "plain" =>
              ext.raised = "none" /\ ext.tier = 1 /\ ext.value = made.value
        /\ (made.form = "fenced" /\ WordsOnly(made.pre) /\ WordsOnly(made.post)) =>
              ext.raised = "none" /\ ext.tier = 2 /\ ext.value = made.value

\* C13: a nested value inside a fenced block between prose came back whole
C13_Witness ==
    /\ ext.handler = "analyze_prd"
    /\ made = Made("fenced", NestedExample, <<Word>>, <<Word>>)
    /\ ext.tier = 2
    /\ ext.value = NestedExample

\* prose that holds no fenced block
FenceFree(p) == \A i \in 1 .. Len(p) : p[i] \notin {FenceOpen, FenceClose}

\* a text of prose, an object that opens with {"test_cases":[ and has no brace
\* character inside a string, and prose
ProseAroundTestCases ==
    /\ made.form = "embedded"
    /\ FenceFree(made.pre) /\ FenceFree(made.post)
    /\ PatternAt(Serialise(made.value), 1)
    /\ ~HasBraceString(made.value)

\* C14: for a text prose + object + prose whose object opens with
\* {"test_cases":[ and holds nested objects and arrays (no brace character inside
\* a string), the balanced scan of analyze_recording selects exactly the text
\* from the object's opening brace to its matching closing brace, and the handler
\* returns the whole object.
C14_NestedObjectSurvivesScan ==
    (ext.handler = "analyze_recording" /\ ProseAroundTestCases) =>
        LET start == PatternStart(text)
            end == Scan(text, start, 0)
        IN  /\ start = Len(made.pre) + 1
            /\ end = Len(made.pre) + Len(Serialise(made.value))
            /\ BalancedText(text, start, end) = Serialise(made.value)
            /\ ext.raised = "none"
            /\ ext.value = made.value
            /\ ext.tier = IF made.pre = <<>> /\ made.post = <<>> THEN 1 ELSE 3

\* C14: the nested example between a word and a stray closing brace came back
C14_Witness ==
    /\ ext.handler = "analyze_recording"
    /\ made = Made("embedded", NestedExample, <<Word>>, <<RBrace>>)
    /\ ext.tier = 3
    /\ ext.value = NestedExample

\* C15: for every text that none of the three tiers can parse (prose, the empty
\* string, ...) each handler ends in its failure, HTTP 500, with no value; and a
\* value a handler does return is what one of the tiers parsed, never something
\* else.
C15_UnparseableTextFails ==
    ext.handler # "none" =>
        /\ (~Tier1(text).ok /\ ~Tier2(text).ok /\ ~Tier3(text).ok) =>
              ext.raised # "none" /\ ext.status = 500 /\ ext.value = NoValue
        /\ ext.raised = "none" =>
              \/ Tier1(text).ok /\ ext.value = Tier1(text).val
              \/ Tier2(text).ok /\ ext.value = Tier2(text).val
              \/ Tier3(text).ok /\ ext.value = Tier3(text).val

\* C15: the empty string was parsed and failed
C15_Witness ==
    /\ ext.handler = "analyze_recording"
    /\ made = FreeForm
    /\ text = <<>>
    /\ ext.raised = FailedToParse
    /\ ext.status = 500

\* C16: the parsing never throws: it ends in a value or in the one failure of
\* the parsing, the same whichever tier failed last (no fence found, fenced
\* content that does not parse, scan never balancing, balanced text that does
\* not parse).
C16_OneFailureKind ==
    ext.handler # "none" => ext.raised \in {"none", FailedToParse}

\* C17: the request body generate_text builds has the system_prompt field if
\* and only if the caller passed a system prompt, and then with the value
\* passed: an empty string gives a field holding the empty string, no system
\* prompt gives no field.
C17_SystemPromptFieldIffProvided ==
    Posted =>
        /\ ("system_prompt" \in reply.payload.fields) <=> (call.system_prompt # None)
        /\ call.system_prompt # None =>
              reply.payload.system_prompt = call.system_prompt

\* C18: a call without params sends exactly the defaults (max_new_tokens 4000,
\* temperature 0.2, top_p 0.95, min_new_tokens 100); a call with a params object
\* sends that object unchanged, no default put in its place or merged into it.
C18_ParamsDefaultOrUnchanged ==
    Posted =>
        reply.payload.parameters =
            IF call.params.given THEN call.params.dict ELSE DefaultParams

\* C18, amended: a call without params or with an empty params object sends
\* exactly the defaults; a call with a non-empty params object sends that
\* object unchanged.
C18_ParamsDefaultWhenNoneOrEmpty ==
    Posted =>
        reply.payload.parameters =
            IF call.params.given /\ call.params.dict # {}
            THEN call.params.dict ELSE DefaultParams

\* C18: a params object with one key was sent as it is
C18_Witness ==
    /\ Posted
    /\ call.params = Dict({<<"temperature", "0.9">>})
    /\ reply.payload.parameters = {<<"temperature", "0.9">>}

\* C19: on a 200 response generate_text returns results[0].generated_text, and
\* the empty string, not an error, when the envelope has no results key, an
\* empty results list, or a first result without generated_text.
C19_MissingTextGivesEmptyString ==
    (Posted /\ call.gresp.status = 200) =>
        /\ reply.outcome = "text"
        /\ reply.text = IF call.gresp.results = "text" THEN GeneratedTextValue ELSE ""

\* C20: a non-200 response ends generate_text in a failure that carries the
\* status code and the body of the response, never in a text; a transport
\* failure of the POST ends in a failure that differs from that one and from the
\* failure for a missing credential.
C20_UpstreamFailureCarriesStatusAndBody ==
    /\ (Posted /\ call.gresp.status \notin {0, 200}) =>
          /\ reply.text = None
          /\ reply.raised.status = call.gresp.status
          /\ reply.raised.body = call.gresp.body
    /\ (Posted /\ call.gresp.status = 0) =>
          /\ reply.text = None
          /\ reply.raised.class \notin {"none", "Exception"}

\* C20, amended: a non-200 response makes generate_text raise Exception with
\* the status code in its message and without the body, never return a text; a
\* transport failure of the POST raises the exception of requests, another class
\* than the Exception raised for a non-200 response and for a token that is
\* None or empty, which two differ by their message only.
C20_UpstreamFailureCarriesStatusOnly ==
    /\ (Posted /\ call.gresp.status \notin {0, 200}) =>
          /\ reply.text = None
          /\ reply.raised.class = "Exception"
          /\ reply.raised.status = call.gresp.status
          /\ reply.raised.body = NotCarried
    /\ (Posted /\ call.gresp.status = 0) =>
          /\ reply.text = None
          /\ reply.raised.class = "requests.RequestException"
    /\ (reply # NoReply /\ ~Posted) =>
          /\ reply.text = None
          /\ reply.raised.class = "Exception"
          /\ reply.raised.status = -1
          /\ reply.raised.message = "Failed to obtain valid token"

\* C20: a 500 with a body was answered and the exception holds the status only
C20_Witness ==
    /\ Posted
    /\ call.gresp.status = 500
    /\ call.gresp.body = "denied"
    /\ reply.raised.status = 500
    /\ reply.raised.body = NotCarried

\* C21: generate_text never retries: one invocation adds at most one POST to the
\* generation endpoint and at most one refresh POST to the identity endpoint,
\* whether the calls end in a non-200 answer, a transport error or a body with
\* missing fields; a failed refresh or a failed generation POST is not repeated.
C21_GenerateTextNeverRetries ==
    [][ last'.op = "generate" =>
           /\ iamCalls' - iamCalls \in {0, 1}
           /\ genCalls' - genCalls \in {0, 1}
           /\ iamCalls' - iamCalls = last'.refreshes
           /\ genCalls' - genCalls = last'.posts
           /\ (last'.refresh = "failed" => iamCalls' = iamCalls + 1)
           /\ (last'.outcome \in {"transport error", "API call failed", "IndexError"}
                  => genCalls' = genCalls + 1) ]_vars

\* C21: one generate_text made a refresh that failed and a generation POST that
\* was answered 500, one call to each endpoint
C21_Witness ==
    /\ last.op = "generate"
    /\ last.refresh = "failed"
    /\ last.refreshes = 1
    /\ last.outcome = "API call failed"
    /\ last.posts = 1

\* the requests whose handler waits inside requests.post
Waiting == { r \in Requests : req[r].stage \in {"refresh_post", "generation_post"} }

\* C22 (as claimed): every call of requests.post ends by itself, so that every
\* request whose handler waits for an endpoint is answered at last, with a value
\* or a failure, also when the endpoint never answers; and a call that hangs
\* does not keep the loop from the other requests: every queued request gets
\* its handler entered.
C22_EveryCallReturnsAndDelaysOnlyItsRequest ==
    /\ \A r \in Requests : (r \in Waiting) ~> (req[r].stage = "answered")
    /\ \A r \in Requests : (req[r].stage = "queued") ~> (req[r].stage # "queued")

\* the opening braces less the closing braces among the characters of a symbol
BraceChars(sym) ==
    CASE sym \in {LBrace, StrOpen} -> 1
      [] sym \in {RBrace, StrClose, CutStr} -> -1
      [] OTHER -> 0

RECURSIVE Balance(_, _, _)
\* the opening braces less the closing braces in symbols a .. i of s
Balance(s, a, i) == IF i < a THEN 0 ELSE Balance(s, a, i - 1) + BraceChars(s[i])

\* the positions from a on at which that count is zero
Zeros(s, a) == { i \in a .. Len(s) : Balance(s, a, i) = 0 }

\* analyze_recording came to its third tier and found the opening pattern
ScanReached ==
    /\ ext.handler = "analyze_recording"
    /\ 3 \in ext.tried
    /\ \E i \in 1 .. Len(text) : PatternAt(text, i)

\* prose around an object that opens with the pattern; of the two brace
\* characters its string literals hold brace and never other
StringHoldsOnly(brace, other) ==
    /\ made.form = "embedded"
    /\ PatternAt(Serialise(made.value), 1)
    /\ \E i \in 1 .. Len(Serialise(made.value)) : Serialise(made.value)[i] = brace
    /\ \A i \in 1 .. Len(Serialise(made.value)) : Serialise(made.value)[i] # other

\* C23: the balanced scan begins at the first match of the opening pattern,
\* counts +1 for every opening and -1 for every closing brace, those inside
\* string literals included, ends at the first position where the count is zero
\* and parses only the text from the start to there; with no such position the
\* handler fails.  So an object whose string holds an unmatched closing brace is
\* cut before its real end and an object whose string holds an unmatched opening
\* brace is not closed by its own last brace (the scan runs to the end of the
\* text unless later prose closes it), and both end in failure, HTTP 500.
C23_ScanCountsBracesInsideStrings ==
    ScanReached =>
        LET start == Least({ i \in 1 .. Len(text) : PatternAt(text, i) })
            zeros == Zeros(text, start)
            real == Len(made.pre) + Len(Serialise(made.value))
        IN  /\ zeros = {} => (ext.raised = FailedToParse /\ ext.status = 500)
            /\ zeros # {} =>
                  LET piece == Loads(BalancedText(text, start, Least(zeros)))
                  IN  IF piece.ok
                      THEN ext.raised = "none" /\ ext.tier = 3 /\ ext.value = piece.val
                      ELSE ext.raised = JSONDecodeError /\ ext.status = 500
            /\ StringHoldsOnly(StrClose, StrOpen) =>
                  /\ zeros # {}
                  /\ Least(zeros) < real
                  /\ ext.raised = JSONDecodeError
                  /\ ext.status = 500
            /\ StringHoldsOnly(StrOpen, StrClose) =>
                  /\ real \notin zeros
                  /\ (\A i \in 1 .. Len(made.post) : made.post[i] # RBrace) => zeros = {}
                  /\ ext.raised \in {FailedToParse, JSONDecodeError}
                  /\ ext.status = 500

\* C23: the object {"test_cases":["}"]} after a word was cut inside its string
C23_Witness ==
    /\ ScanReached
    /\ made = Made("embedded", JObj(<<StrTC>>, <<JArr(<<JStr(StrClose)>>)>>), <<Word>>, <<>>)
    /\ ext.raised = JSONDecodeError

\* the last character of a symbol is a closing brace
EndsWithClosingBrace(sym) == sym \in {RBrace, CutStr}

\* C24: during the balanced scan of any text the brace counter is never
\* negative; after the loop it is zero only if the loop was left by the break
\* that assigns end_idx; so whenever response[start_idx:end_idx] is taken end_idx
\* is assigned and greater than start_idx, and that substring begins with an
\* opening brace and ends with a closing brace.
C24_CounterNeverNegativeAndEndDefined ==
    /\ scan.open_braces >= 0
    /\ scan.state # "unbound"
    /\ (scan.state = "after" /\ scan.open_braces = 0) =>
          (scan.broke /\ scan.end_idx # 0)
    /\ scan.state = "taken" =>
          LET piece == BalancedText(text, scan.start_idx, scan.end_idx - 1)
          IN  /\ scan.end_idx # 0
              /\ scan.end_idx > scan.start_idx
              /\ piece[1] = LBrace
              /\ EndsWithClosingBrace(piece[Len(piece)])
              /\ scan.end_idx - 1 = Scan(text, scan.start_idx, 0)

\* C24: the substring of a text with a stray closing brace after the object was
\* taken, the loop having stopped at the object's own last brace
C24_Witness ==
    /\ scan.state = "taken"
    /\ made = Made("embedded", NestedExample, <<Word>>, <<RBrace>>)
    /\ scan.end_idx = Len(text)

\* C25 (as claimed): whenever refresh_token has returned True the stored token is
\* a non-empty value; a 200 identity response without access_token is no
\* successful refresh.
C25_SuccessfulRefreshStoresToken ==
    last.refresh = "ok" =>
        /\ token # None
        /\ token # ""
        /\ last.resp.access_token # None

C27_ServiceAssignedAtStartUpOnly ==
    [][ /\ phase = "serving" => watson_service' = watson_service
        /\ (last'.op = "generate" /\ ~watson_service) =>
              /\ last'.outcome = "service not initialized"
              /\ last'.got = NotCalled
              /\ last'.posts = 0
              /\ genCalls' = genCalls
              /\ iamCalls' = iamCalls ]_vars

\* C27: start-up got no token, test_api later obtained one, and a generating
\* request still fails
C27_Witness ==
    /\ token_manager
    /\ ~watson_service
    /\ token = "tokA"
    /\ now <= expiry_time
    /\ last.op = "generate"
    /\ last.outcome = "service not initialized"

\* C28 (as claimed): on every response text the parsing of analyze_prd and of
\* generate_cucumber_features ends as the parsing of analyze_recording ends on
\* that text: in the same structured value, or in failure.
C28_HandlersExtractAlike ==
    ext.handler \in {"analyze_prd", "generate_cucumber_features"} =>
        /\ (ext.raised = "none") <=> (ExtractThreeTier(text).raised = "none")
        /\ ext.value = ExtractThreeTier(text).value

\* C29: the launcher starts the services in the order AI service, server,
\* client: the server process is spawned only after a health check of the AI
\* service has returned 200, the client process only after a health check of
\* the server has returned 200, and "All services started successfully" is
\* reached only when all three processes have been started.
C29_ServicesStartInOrder ==
    /\ proc["server"] # "none" => "ai_service" \in healthy
    /\ proc["client"] # "none" => {"ai_service", "server"} \subseteq healthy
    /\ "server" \in healthy => proc["server"] # "none"
    /\ "ai_service" \in healthy => proc["ai_service"] # "none"
    /\ at \in {"start_server", "server health"} => "ai_service" \in healthy
    /\ at = "start_client" => "server" \in healthy
    /\ at = "all started" =>
          /\ \A s \in Services : proc[s] # "none"
          /\ healthy = {"ai_service", "server"}

\* C29: all three children run and the launcher has reached line 470
C29_Witness ==
    /\ at = "all started"
    /\ \A s \in Services : proc[s] = "running"

\* C30 (as claimed): when the launcher gives up during start-up and exits with
\* status 1, no child it has spawned is left running: each has been terminated
\* or has ended by itself.
C30_NoChildLeftRunning ==
    at = "exit 1" => \A s \in Services : proc[s] \in {"none", "exited", "terminated"}

====
